---- MODULE Spec2Model ----
(***************************************************************************)
(* Fleet coordination engine: NavGraph, Robot, FleetManager,               *)
(* TrafficManager and the dashboard's timer and click handlers.            *)
(*                                                                         *)
(* Geometry.  The vertices of the modelled graphs lie on one line and have *)
(* integer scene coordinates, so every hypot() is an absolute difference,  *)
(* every heading is +1 or -1 and every position stays an integer.          *)
(*                                                                         *)
(* Data representation.  The sources disagree on three representations;    *)
(* the model reads them the way the consuming code does:                   *)
(*   - Robot.__init__ takes the shared vertex_items (robot.py:14), which   *)
(*     FleetManager.spawn_robot does not pass (fleet_manager.py:16);       *)
(*   - a vertex carries "reserved_by" and "waiting_queue"                  *)
(*     (dashboard.py:52), which NavGraph.load_graph does not create        *)
(*     (nav_graphs.py:46): they start as None and the empty list;          *)
(*   - a route entry is a (vertex_index, point) pair (robot.py:37,96);     *)
(*     FleetManager and TrafficManager store the point only.  The model    *)
(*     keeps the vertex index, the point being vertex_items[idx]["pos"].   *)
(* None is 0 for a robot id and -1 for a vertex index.                     *)
(***************************************************************************)
EXTENDS Integers, Sequences, FiniteSets, TLC

VARIABLES
    vertex_items,    \* NavGraph.vertices: index -> [pos, reserved_by, waiting_queue]
    lanes,           \* NavGraph.lanes, in insertion order
    robots,          \* FleetManager.robots (the roster, in spawn order)
    robot_counter,   \* FleetManager.robot_counter
    selected_robot,  \* FleetDashboard.selected_robot (robot id, 0 = None)
    warnings,        \* TrafficManager.warnings
    pc,              \* updateRobots: number of robots already moved in this tick
    obs              \* per-robot observations of the run (history, not program state)

vars == <<vertex_items, lanes, robots, robot_counter, selected_robot, warnings, pc, obs>>

-----------------------------------------------------------------------------
(* Program constants *)

AT_VERTEX_THRESHOLD == 5
default_speed == 2
collision_threshold == 20
release_margin == 10
\* angle_threshold = 0.5 rad, used through its cosine: cos(0.5) = 0.87758...
CosAngleNum == 8776
CosAngleDen == 10000

NoRobot == 0
NoVertex == -1

(* Bounds of the model *)
MaxRobots == 2
MaxAssigns == 2

-----------------------------------------------------------------------------
(* Graphs.  pos is the scene coordinate of each vertex, lanes the ordered   *)
(* lane list.                                                               *)

\* Three vertices in a row and a fourth one that no lane reaches.
LineGraph ==
    [pos   |-> (0 :> 0) @@ (1 :> 10) @@ (2 :> 27) @@ (3 :> 45),
     lanes |-> << <<0, 1>>, <<1, 2>> >>]

\* The head-on scenario: A(0) and B(10) joined by one lane.
HeadOnGraph ==
    [pos   |-> (0 :> 0) @@ (1 :> 10),
     lanes |-> << <<0, 1>> >>]

Abs(x) == IF x < 0 THEN -x ELSE x

Min(a, b) == IF a < b THEN a ELSE b

\* math.hypot(dx, dy) for collinear points
Hypot(a, b) == Abs(b - a)

Vertices == DOMAIN vertex_items

PosOf(v) == vertex_items[v].pos

LoadGraph(g) ==
    [v \in DOMAIN g.pos |->
        [pos |-> g.pos[v], reserved_by |-> NoRobot, waiting_queue |-> << >>]]

-----------------------------------------------------------------------------
(* NavGraph.get_shortest_path: networkx.astar_path with the Euclidean       *)
(* heuristic; [] when no path exists.                                       *)

\* G._adj[u]: the neighbours of u in the order the lanes were added.
RECURSIVE Adj(_, _)
Adj(u, ls) ==
    IF ls = << >> THEN << >>
    ELSE LET e == Head(ls)
             rest == Adj(u, Tail(ls))
             n == IF e[1] = u THEN e[2] ELSE IF e[2] = u THEN e[1] ELSE NoVertex
         IN  IF n = NoVertex \/ n = u THEN rest
             ELSE <<n>> \o SelectSeq(rest, LAMBDA x : x # n)

Heuristic(u, v) == Hypot(PosOf(u), PosOf(v))

Weight(u, v) == Hypot(PosOf(u), PosOf(v))

NotSeen == -2

\* a pop that takes the entry with the greatest (f, c)
PopMax(queue) ==
    CHOOSE e \in queue :
        \A e2 \in queue : e.f > e2.f \/ (e.f = e2.f /\ e.c >= e2.c)

\* heappop: the entry with the least (f, c)
PopMin(queue) ==
    CHOOSE e \in queue :
        \A e2 \in queue : e.f < e2.f \/ (e.f = e2.f /\ e.c <= e2.c)

\* the loop over G_succ[curnode].items()
RECURSIVE Relax(_, _, _, _, _)
Relax(st, nbrs, curnode, dist, target) ==
    IF nbrs = << >> THEN st
    ELSE LET neighbor == Head(nbrs)
             ncost == dist + Weight(curnode, neighbor)
             skip == st.enqueued[neighbor] # NotSeen /\ st.enqueued[neighbor] <= ncost
             st2 == IF skip THEN st
                    ELSE [st EXCEPT
                            !.enqueued[neighbor] = ncost,
                            !.queue = @ \cup {[f |-> ncost + Heuristic(neighbor, target),
                                               c |-> st.c, node |-> neighbor,
                                               dist |-> ncost, parent |-> curnode]},
                            !.c = @ + 1]
         IN  Relax(st2, Tail(nbrs), curnode, dist, target)

\* path = [curnode]; node = parent; while node is not None: ...; path.reverse()
RECURSIVE PathBack(_, _)
PathBack(explored, node) ==
    IF node = NoVertex THEN << >>
    ELSE PathBack(explored, explored[node]) \o <<node>>

RECURSIVE AStarLoop(_, _)
AStarLoop(st, target) ==
    IF st.queue = {} THEN << >>                     \* NetworkXNoPath -> []
    ELSE LET e == PopMin(st.queue)
             q == st.queue \ {e}
         IN  IF e.node = target
                THEN PathBack(st.explored, e.parent) \o <<e.node>>
             ELSE IF st.explored[e.node] # NotSeen
                     /\ (st.explored[e.node] = NoVertex \/ st.enqueued[e.node] < e.dist)
                THEN AStarLoop([st EXCEPT !.queue = q], target)
             ELSE AStarLoop(
                    Relax([st EXCEPT !.queue = q, !.explored[e.node] = e.parent],
                          Adj(e.node, lanes), e.node, e.dist, target),
                    target)

get_shortest_path(start_index, dest_index) ==
    AStarLoop([queue    |-> {[f |-> 0, c |-> 0, node |-> start_index,
                              dist |-> 0, parent |-> NoVertex]},
               enqueued |-> [v \in Vertices |-> NotSeen],
               explored |-> [v \in Vertices |-> NotSeen],
               c        |-> 1],
              dest_index)

-----------------------------------------------------------------------------
(* Robot *)

Active == {"task assigned", "moving", "waiting"}

\* Robot.__init__: the fields of a new robot
NewRobot(identifier, vertex_index) ==
    [id |-> identifier,
     pos |-> PosOf(vertex_index),
     current_vertex_index |-> vertex_index,
     current_destination_index |-> NoVertex,
     route |-> << >>,
     speed |-> default_speed,
     selected |-> FALSE,
     waiting |-> FALSE,
     status |-> "unassigned"]

\* Robot.__init__, "Reserve the starting vertex."
ReserveStart(vi, vertex_index, identifier) ==
    [vi EXCEPT ![vertex_index].reserved_by = identifier]

\* The guard of Robot.update_position: the next vertex is held by another robot.
NextReservedByOther(r, vi) ==
    /\ r.route # << >>
    /\ vi[Head(r.route)].reserved_by # NoRobot
    /\ vi[Head(r.route)].reserved_by # r.id

\* cos(atan2(0, dx)): +1 for dx >= 0 (atan2(0, 0) = 0), -1 for dx < 0
CosHeading(dx) == IF dx < 0 THEN -1 ELSE 1

\* the release of the previous vertex without the test of its holder
ReleasePreviousOfAnyone(r, vi) ==
    IF Hypot(vi[r.current_vertex_index].pos, r.pos) > AT_VERTEX_THRESHOLD
    THEN [vi EXCEPT ![r.current_vertex_index].reserved_by = NoRobot]
    ELSE vi

\* "Check if robot has left its previous vertex."
ReleasePrevious(r, vi) ==
    IF /\ Hypot(vi[r.current_vertex_index].pos, r.pos) > AT_VERTEX_THRESHOLD
       /\ vi[r.current_vertex_index].reserved_by = r.id
    THEN [vi EXCEPT ![r.current_vertex_index].reserved_by = NoRobot]
    ELSE vi

\* Robot.update_position, route non-empty and next vertex free: move or arrive.
Advance(r, vi) ==
    LET next_waypoint_index == Head(r.route)
        next_point == vi[next_waypoint_index].pos
        dx == next_point - r.pos
        distance == Abs(dx)
        arrived == distance < r.speed
        r1 == IF arrived
              THEN [r EXCEPT !.pos = next_point,
                             !.route = Tail(r.route),
                             !.current_vertex_index = next_waypoint_index]
              ELSE [r EXCEPT !.pos = r.pos + r.speed * CosHeading(dx)]
        vi1 == IF arrived
               THEN [vi EXCEPT ![next_waypoint_index].reserved_by = r.id]
               ELSE vi
        r2 == [r1 EXCEPT !.status = "moving", !.waiting = FALSE]
    IN  [robot |-> r2, vertex_items |-> ReleasePrevious(r2, vi1)]

\* Robot.update_position, route empty: arrival.
Arrival(r, vi) ==
    LET fin == /\ r.current_destination_index # NoVertex
               /\ Hypot(vi[r.current_destination_index].pos, r.pos) <= AT_VERTEX_THRESHOLD
        r1 == IF fin
              THEN [r EXCEPT !.current_vertex_index = r.current_destination_index]
              ELSE r
        vi1 == IF fin
               THEN [vi EXCEPT ![r.current_destination_index].reserved_by = r.id]
               ELSE vi
        r2 == IF r1.status \in Active THEN [r1 EXCEPT !.status = "task complete"] ELSE r1
    IN  [robot |-> r2, vertex_items |-> vi1]

\* update_position without the check of the next vertex's reservation
update_position_unguarded(r, vi) ==
    IF r.route # << >> THEN Advance(r, vi) ELSE Arrival(r, vi)

update_position(r, vi) ==
    IF r.route # << >>
    THEN IF NextReservedByOther(r, vi)
         THEN [robot |-> [r EXCEPT !.status = "waiting", !.waiting = TRUE],
               vertex_items |-> vi]
         ELSE Advance(r, vi)
    ELSE Arrival(r, vi)

-----------------------------------------------------------------------------
(* FleetManager *)

\* FleetManager.assign_task: the destination is reserved (by anyone).
DestinationReserved(vi, dest_vertex_index) ==
    vi[dest_vertex_index].reserved_by # NoRobot

\* robot.route = route, built from path_indices
RouteOf(path_indices) == path_indices

assign_task(r, dest_vertex_index, vi) ==
    IF DestinationReserved(vi, dest_vertex_index)
    THEN [robot |-> [r EXCEPT !.status = "waiting"],
          vertex_items |-> [vi EXCEPT ![dest_vertex_index].waiting_queue =
                                            Append(@, r.id)]]
    ELSE LET path_indices ==
                 get_shortest_path(r.current_vertex_index, dest_vertex_index)
             r1 == [r EXCEPT !.status = "task assigned"]
             r2 == IF path_indices # << >>
                   THEN [r1 EXCEPT !.route = RouteOf(path_indices),
                                   !.current_vertex_index = dest_vertex_index]
                   ELSE r1
         IN  [robot |-> r2,
              vertex_items |-> [vi EXCEPT ![dest_vertex_index].reserved_by = r.id]]

-----------------------------------------------------------------------------
(* TrafficManager *)

\* TrafficManager.compute_remaining_distance
RECURSIVE SegmentSum(_, _, _)
SegmentSum(prev, route, vi) ==
    IF route = << >> THEN 0
    ELSE Hypot(prev, vi[Head(route)].pos) + SegmentSum(vi[Head(route)].pos, Tail(route), vi)

compute_remaining_distance(r, vi) ==
    IF r.route = << >> THEN 0 ELSE SegmentSum(r.pos, r.route, vi)

\* replan_route that extends the route in place of overwriting it
replan_route_extending(r, vi) ==
    IF r.current_destination_index = NoVertex THEN r
    ELSE LET new_path == get_shortest_path(r.current_vertex_index,
                                           r.current_destination_index)
         IN  IF new_path # << >> THEN [r EXCEPT !.route = @ \o new_path] ELSE r

\* TrafficManager.replan_route
replan_route(r, vi) ==
    IF r.current_destination_index = NoVertex THEN r
    ELSE LET new_path == get_shortest_path(r.current_vertex_index,
                                           r.current_destination_index)
         IN  IF new_path # << >> THEN [r EXCEPT !.route = RouteOf(new_path)] ELSE r

\* "Check for reserved destination re-planning if applicable."
ReplanIfReserved(r, vi) ==
    IF /\ r.current_destination_index # NoVertex
       /\ vi[r.current_destination_index].reserved_by # NoRobot
       /\ vi[r.current_destination_index].reserved_by # r.id
    THEN replan_route(r, vi)
    ELSE r

\* the reset pass without "robot.speed = self.default_speed"
ResetRobotKeepingSpeed(r) ==
    IF r.route # << >> THEN [r EXCEPT !.status = "moving"]
    ELSE IF r.status \in Active THEN [r EXCEPT !.status = "task complete"]
    ELSE r

\* The reset pass at the head of check_collisions, for one robot.
ResetRobot(r) ==
    LET r1 == IF ~r.waiting THEN [r EXCEPT !.speed = default_speed] ELSE r
    IN  IF r1.route # << >> THEN [r1 EXCEPT !.status = "moving"]
        ELSE IF r1.status \in Active THEN [r1 EXCEPT !.status = "task complete"]
        ELSE r1

\* r.speed = 0; r.waiting = True; r.status = "waiting"; the message, once.
Halt(st, who, peer, kind) ==
    LET msg == [robot |-> st.robots[who].id, peer |-> st.robots[peer].id, kind |-> kind]
    IN  [robots   |-> [st.robots EXCEPT ![who].speed = 0,
                                        ![who].waiting = TRUE,
                                        ![who].status = "waiting"],
         warnings |-> IF \E k \in 1..Len(st.warnings) : st.warnings[k] = msg
                      THEN st.warnings
                      ELSE Append(st.warnings, msg)]

\* "release waiting state" of one robot
Release(r) ==
    IF r.waiting
    THEN [r EXCEPT !.waiting = FALSE,
                   !.speed = default_speed,
                   !.status = IF r.status = "waiting" THEN "moving" ELSE r.status]
    ELSE r

\* r1_dir: the unit heading of r1 toward its next waypoint, 0 for None
MovingDirection(r, vi) ==
    IF r.route # << >>
    THEN LET dx == vi[Head(r.route)].pos - r.pos
         IN  IF dx > 0 THEN 1 ELSE IF dx < 0 THEN -1 ELSE 0
    ELSE 0

\* dot > 0 and acos(clamp(dot / distance)) < angle_threshold
AheadWithinAngle(dot, distance) ==
    dot > 0 /\ dot * CosAngleDen > CosAngleNum * distance

\* "Determine which robot should wait.": the roster index of the one halted
Yielding(st, i, j, vi) ==
    LET r1_remaining == compute_remaining_distance(st.robots[i], vi)
        r2_remaining == compute_remaining_distance(st.robots[j], vi)
    IN  IF r1_remaining > r2_remaining THEN <<i, j, "collision">>
        ELSE IF r2_remaining > r1_remaining THEN <<j, i, "collision">>
        ELSE IF st.robots[i].id > st.robots[j].id THEN <<i, j, "tie-breaker">>
        ELSE <<j, i, "tie-breaker">>

\* "Fallback if no moving direction."
Fallback(st, i, j) ==
    IF st.robots[i].id > st.robots[j].id THEN <<i, j, "fallback">>
    ELSE <<j, i, "fallback">>

\* the branch distance < collision_threshold for the pair (i, j)
Conflict(st, i, j, vi, vec_x, distance) ==
    LET st1 == [st EXCEPT !.robots[i] = ReplanIfReserved(@, vi)]
        st2 == [st1 EXCEPT !.robots[j] = ReplanIfReserved(@, vi)]
        r1_dir == MovingDirection(st2.robots[i], vi)
    IN  IF r1_dir # 0
        THEN IF AheadWithinAngle(vec_x * r1_dir, distance)
             THEN LET y == Yielding(st2, i, j, vi) IN Halt(st2, y[1], y[2], y[3])
             ELSE st2
        ELSE LET y == Fallback(st2, i, j) IN Halt(st2, y[1], y[2], y[3])

\* the body of the pair loop without the test of r1.selected or r2.selected
ProcessPairNoOverride(st, i, j, vi) ==
    LET vec_x == st.robots[j].pos - st.robots[i].pos
        distance == Abs(vec_x)
    IN  IF distance < collision_threshold
             THEN Conflict(st, i, j, vi, vec_x, distance)
        ELSE IF distance > collision_threshold + release_margin
             THEN [st EXCEPT !.robots[i] = Release(@), !.robots[j] = Release(@)]
        ELSE st

\* the body of the loop over the pairs (i, j), i < j
ProcessPair(st, i, j, vi) ==
    LET r1 == st.robots[i]
        r2 == st.robots[j]
        vec_x == r2.pos - r1.pos
        distance == Abs(vec_x)
    IN  IF r1.selected \/ r2.selected THEN st
        ELSE IF distance < collision_threshold
             THEN Conflict(st, i, j, vi, vec_x, distance)
        ELSE IF distance > collision_threshold + release_margin
             THEN [st EXCEPT !.robots[i] = Release(@), !.robots[j] = Release(@)]
        ELSE st

\* for i in range(n): for j in range(i + 1, n)
RECURSIVE PairLoop(_, _, _, _)
PairLoop(st, i, j, vi) ==
    LET n == Len(st.robots)
    IN  IF i > n THEN st
        ELSE IF j > n THEN PairLoop(st, i + 1, i + 2, vi)
        ELSE PairLoop(ProcessPair(st, i, j, vi), i, j + 1, vi)

check_collisions(rs, vi) ==
    PairLoop([robots   |-> [k \in 1..Len(rs) |-> ResetRobot(rs[k])],
              warnings |-> << >>],
             1, 2, vi)

-----------------------------------------------------------------------------
(* Observations of the run, kept beside the program state:                  *)
(*   per[i].spawn     the vertex robot i was spawned on                     *)
(*   per[i].req       the destination of the last assign_task call for i    *)
(*   per[i].stalled   that call found no path                               *)
(*   per[i].dest      the last vertex of the route assign_task last gave i  *)
(*   per[i].consumed  collision passes ended since update_position popped   *)
(*                    the last waypoint of that route (-1: not yet)         *)
(*   per[i].held      a collision pass halted i, and since then no pass saw *)
(*                    i more than threshold + margin from a peer and no     *)
(*                    click happened                                        *)
(*   assigns          assign_task calls so far                              *)

NewObs(vertex_index) ==
    [spawn |-> vertex_index, req |-> NoVertex, stalled |-> FALSE,
     dest |-> NoVertex, consumed |-> -1, held |-> FALSE]

Unhold(per) == [i \in 1..Len(per) |-> [per[i] EXCEPT !.held = FALSE]]

HaltedIn(ws, identifier) == \E k \in 1..Len(ws) : ws[k].robot = identifier

\* some pair of the pass, not skipped, had i farther than threshold + margin
SeenFar(rs, i) ==
    \E j \in (1..Len(rs)) \ {i} :
        /\ ~rs[i].selected /\ ~rs[j].selected
        /\ Hypot(rs[i].pos, rs[j].pos) > collision_threshold + release_margin

-----------------------------------------------------------------------------
(* The handlers *)

InitGraph(g) ==
    /\ vertex_items = LoadGraph(g)
    /\ lanes = g.lanes
    /\ robots = << >>
    /\ robot_counter = 1
    /\ selected_robot = NoRobot
    /\ warnings = << >>
    /\ pc = 0
    /\ obs = [per |-> << >>, assigns |-> 0]

Init == InitGraph(LineGraph)

InitHeadOn == InitGraph(HeadOnGraph)

\* FleetDashboard.vertexClicked with no robot selected: FleetManager.spawn_robot
SpawnRobot(vertex_index) ==
    /\ pc = 0
    /\ selected_robot = NoRobot
    /\ Len(robots) < MaxRobots
    /\ robots' = Append(robots, NewRobot(robot_counter, vertex_index))
    /\ vertex_items' = ReserveStart(vertex_items, vertex_index, robot_counter)
    /\ robot_counter' = robot_counter + 1
    /\ obs' = [obs EXCEPT !.per = Append(Unhold(@), NewObs(vertex_index))]
    /\ UNCHANGED <<lanes, selected_robot, warnings, pc>>

\* FleetDashboard.robotClicked
RobotClicked(i) ==
    /\ pc = 0
    /\ robots' = [k \in 1..Len(robots) |->
                    [robots[k] EXCEPT !.selected = (k = i)]]
    /\ selected_robot' = robots[i].id
    /\ obs' = [obs EXCEPT !.per = Unhold(@)]
    /\ UNCHANGED <<vertex_items, lanes, robot_counter, warnings, pc>>

\* FleetDashboard.vertexClicked with a robot selected: FleetManager.assign_task
AssignTask(vertex_index) ==
    /\ pc = 0
    /\ selected_robot # NoRobot
    /\ obs.assigns < MaxAssigns
    /\ LET i == selected_robot
           res == assign_task(robots[i], vertex_index, vertex_items)
           path == get_shortest_path(robots[i].current_vertex_index, vertex_index)
           free == ~DestinationReserved(vertex_items, vertex_index)
       IN  /\ robots' = [robots EXCEPT ![i] = [res.robot EXCEPT !.selected = FALSE]]
           /\ vertex_items' = res.vertex_items
           /\ obs' = [obs EXCEPT !.per = [Unhold(@) EXCEPT
                                            ![i].req = vertex_index,
                                            ![i].stalled = free /\ path = << >>,
                                            ![i].dest = IF free /\ path # << >>
                                                        THEN vertex_index ELSE @,
                                            ![i].consumed = IF free /\ path # << >>
                                                            THEN -1 ELSE @],
                                 !.assigns = @ + 1]
    /\ selected_robot' = NoRobot
    /\ UNCHANGED <<lanes, robot_counter, warnings, pc>>

\* FleetDashboard.updateRobots, one iteration of "robot.update_position()"
UpdatePosition ==
    /\ pc < Len(robots)
    /\ LET i == pc + 1
           res == update_position(robots[i], vertex_items)
       IN  /\ robots' = [robots EXCEPT ![i] = res.robot]
           /\ vertex_items' = res.vertex_items
           /\ obs' = IF robots[i].route # << >> /\ res.robot.route = << >>
                     THEN [obs EXCEPT !.per[i].consumed = 0]
                     ELSE obs
    /\ pc' = pc + 1
    /\ UNCHANGED <<lanes, robot_counter, selected_robot, warnings>>

\* FleetDashboard.updateRobots, "traffic_manager.check_collisions(...)"
CheckCollisions ==
    /\ pc = Len(robots)
    /\ LET res == check_collisions(robots, vertex_items)
       IN  /\ robots' = res.robots
           /\ warnings' = res.warnings
           /\ obs' = [obs EXCEPT
                        !.per = [i \in 1..Len(robots) |->
                                   [obs.per[i] EXCEPT
                                      !.consumed = IF @ >= 0 THEN Min(@ + 1, 2) ELSE @,
                                      !.held = IF HaltedIn(res.warnings, robots[i].id)
                                                  THEN TRUE
                                               ELSE IF SeenFar(res.robots, i) THEN FALSE
                                               ELSE @]]]
    /\ pc' = 0
    /\ UNCHANGED <<vertex_items, lanes, robot_counter, selected_robot>>

Next ==
    \/ \E v \in Vertices : SpawnRobot(v)
    \/ \E i \in 1..Len(robots) : RobotClicked(i)
    \/ \E v \in Vertices : AssignTask(v)
    \/ UpdatePosition
    \/ CheckCollisions

Spec == Init /\ [][Next]_vars

SpecHeadOn == InitHeadOn /\ [][Next]_vars

(* TrafficManager.replan_route called directly.  The robots start with any  *)
(* current vertex, any destination (or none) and an old route; obs counts   *)
(* the calls made for each robot and keeps the old routes.                  *)

MaxReplans == 2

OldRoutes == {<< >>, <<1>>, <<2, 1>>}

PlannedRobot(identifier, vertex_index, dest_index, route) ==
    [NewRobot(identifier, vertex_index) EXCEPT
        !.current_destination_index = dest_index,
        !.route = route,
        !.status = IF route # << >> THEN "moving"
                   ELSE IF dest_index # NoVertex THEN "task assigned"
                   ELSE "unassigned"]

InitReplan ==
    /\ lanes = LineGraph.lanes
    /\ \E v1, v2 \in DOMAIN LineGraph.pos,
          d1, d2 \in DOMAIN LineGraph.pos \cup {NoVertex},
          o1, o2 \in OldRoutes :
          /\ vertex_items = ReserveStart(ReserveStart(LoadGraph(LineGraph), v1, 1), v2, 2)
          /\ robots = <<PlannedRobot(1, v1, d1, o1), PlannedRobot(2, v2, d2, o2)>>
          /\ obs = [replans |-> <<0, 0>>, old |-> <<o1, o2>>]
    /\ robot_counter = 3
    /\ selected_robot = NoRobot
    /\ warnings = << >>
    /\ pc = 0

\* self.replan_route(robot, vertex_items, nav_graph)
Replan(i) ==
    /\ obs.replans[i] < MaxReplans
    /\ robots' = [robots EXCEPT ![i] = replan_route(@, vertex_items)]
    /\ obs' = [obs EXCEPT !.replans[i] = @ + 1]
    /\ UNCHANGED <<vertex_items, lanes, robot_counter, selected_robot, warnings, pc>>

NextReplan == \E i \in 1..Len(robots) : Replan(i)

SpecReplan == InitReplan /\ [][NextReplan]_vars

(* NavGraph.get_shortest_path called directly on a loaded graph: four       *)
(* vertices in one of two layouts and any list of at most MaxLanes of the   *)
(* six possible lanes.  obs keeps the last query and its result.            *)

MaxLanes == 5

Layouts ==
    {(0 :> 0) @@ (1 :> 10) @@ (2 :> 27) @@ (3 :> 45),
     (0 :> 0) @@ (1 :> 45) @@ (2 :> 10) @@ (3 :> 27)}

AllLanes == << <<0, 3>>, <<3, 1>>, <<0, 2>>, <<2, 1>>, <<0, 1>>, <<2, 3>> >>

\* lanes_data: the lanes of AllLanes picked by S, in their order
RECURSIVE PickLanes(_, _)
PickLanes(S, k) ==
    IF k > Len(AllLanes) THEN << >>
    ELSE (IF k \in S THEN <<AllLanes[k]>> ELSE << >>) \o PickLanes(S, k + 1)

LanesOf(S) == PickLanes(S, 1)

InitPath ==
    /\ \E layout \in Layouts, S \in SUBSET (1..Len(AllLanes)) :
          /\ Cardinality(S) <= MaxLanes
          /\ vertex_items = LoadGraph([pos |-> layout, lanes |-> LanesOf(S)])
          /\ lanes = LanesOf(S)
    /\ robots = << >>
    /\ robot_counter = 1
    /\ selected_robot = NoRobot
    /\ warnings = << >>
    /\ pc = 0
    /\ obs = [start |-> NoVertex, dest |-> NoVertex, path |-> << >>]

\* nav_graph.get_shortest_path(start_index, dest_index)
ShortestPathQuery(start_index, dest_index) ==
    /\ obs' = [start |-> start_index, dest |-> dest_index,
               path |-> get_shortest_path(start_index, dest_index)]
    /\ UNCHANGED <<vertex_items, lanes, robots, robot_counter,
                   selected_robot, warnings, pc>>

NextPath == \E s, d \in Vertices : ShortestPathQuery(s, d)

SpecPath == InitPath /\ [][NextPath]_vars

(* The tick with destination indices that may not exist.  Nothing in        *)
(* updateRobots, update_position or check_collisions catches an exception,  *)
(* so the KeyError of vertex_items[current_destination_index] leaves        *)
(* updateRobots at the statement that raised it: pc = Crashed.              *)

Crashed == -1

BadVertex == 9

Destinations == {NoVertex, 1, BadVertex}

\* vertex_items[r.current_destination_index] raises KeyError
BadReference(r, vi) ==
    r.current_destination_index # NoVertex /\ r.current_destination_index \notin DOMAIN vi

\* Robot.update_position reaches "dest_pos = self.vertex_items[...]" and raises
UpdateRaises(r, vi) == r.route = << >> /\ BadReference(r, vi)

\* check_collisions reaches "vertex_r1 = ..." or "vertex_r2 = ..." for the
\* pair (i, j) and raises
PairRaises(st, i, j, vi) ==
    /\ ~st.robots[i].selected /\ ~st.robots[j].selected
    /\ Hypot(st.robots[i].pos, st.robots[j].pos) < collision_threshold
    /\ (BadReference(st.robots[i], vi) \/ BadReference(st.robots[j], vi))

\* the pair loop up to the statement that raises
RECURSIVE PairLoopRaising(_, _, _, _)
PairLoopRaising(st, i, j, vi) ==
    LET n == Len(st.robots)
    IN  IF i > n THEN st
        ELSE IF j > n THEN PairLoopRaising(st, i + 1, i + 2, vi)
        ELSE IF PairRaises(st, i, j, vi)
             THEN IF BadReference(st.robots[i], vi) THEN st
                  ELSE [st EXCEPT !.robots[i] = ReplanIfReserved(@, vi)]
        ELSE PairLoopRaising(ProcessPair(st, i, j, vi), i, j + 1, vi)

CollisionsRaise(rs, vi) ==
    \E i, j \in 1..Len(rs) :
        i < j /\ PairRaises([robots |-> rs, warnings |-> << >>], i, j, vi)

InitBadRef ==
    /\ lanes = LineGraph.lanes
    /\ \E v1, v2 \in DOMAIN LineGraph.pos, d1, d2 \in Destinations, o1, o2 \in OldRoutes :
          /\ vertex_items = ReserveStart(ReserveStart(LoadGraph(LineGraph), v1, 1), v2, 2)
          /\ robots = <<PlannedRobot(1, v1, d1, o1), PlannedRobot(2, v2, d2, o2)>>
          /\ obs = [per |-> <<NewObs(v1), NewObs(v2)>>, assigns |-> 0]
    /\ robot_counter = 3
    /\ selected_robot = NoRobot
    /\ warnings = << >>
    /\ pc = 0

\* "robot.update_position()" returns
UpdatePositionReturns ==
    /\ pc >= 0 /\ pc < Len(robots)
    /\ ~UpdateRaises(robots[pc + 1], vertex_items)
    /\ UpdatePosition

\* "robot.update_position()" raises
UpdatePositionRaises ==
    /\ pc >= 0 /\ pc < Len(robots)
    /\ UpdateRaises(robots[pc + 1], vertex_items)
    /\ pc' = Crashed
    /\ UNCHANGED <<vertex_items, lanes, robots, robot_counter,
                   selected_robot, warnings, obs>>

\* "traffic_manager.check_collisions(...)" returns
CheckCollisionsReturns ==
    /\ pc = Len(robots)
    /\ ~CollisionsRaise(robots, vertex_items)
    /\ CheckCollisions

\* "traffic_manager.check_collisions(...)" raises
CheckCollisionsRaises ==
    /\ pc = Len(robots)
    /\ CollisionsRaise(robots, vertex_items)
    /\ LET res == PairLoopRaising(
                      [robots   |-> [k \in 1..Len(robots) |-> ResetRobot(robots[k])],
                       warnings |-> << >>],
                      1, 2, vertex_items)
       IN  /\ robots' = res.robots
           /\ warnings' = res.warnings
    /\ pc' = Crashed
    /\ UNCHANGED <<vertex_items, lanes, robot_counter, selected_robot, obs>>

NextBadRef ==
    \/ UpdatePositionReturns
    \/ UpdatePositionRaises
    \/ CheckCollisionsReturns
    \/ CheckCollisionsRaises

SpecBadRef == InitBadRef /\ [][NextBadRef]_vars

(* Three robots on the line graph, each standing on a vertex with no route  *)
(* or with a route to vertex 1; the timer ticks and robots are clicked.     *)

CrowdRoutes == {<< >>, <<1>>}

InitCrowd ==
    /\ lanes = LineGraph.lanes
    /\ \E v1, v2, v3 \in DOMAIN LineGraph.pos, o1, o2, o3 \in CrowdRoutes :
          /\ vertex_items =
                ReserveStart(ReserveStart(ReserveStart(LoadGraph(LineGraph), v1, 1),
                                          v2, 2), v3, 3)
          /\ robots = <<PlannedRobot(1, v1, NoVertex, o1),
                        PlannedRobot(2, v2, NoVertex, o2),
                        PlannedRobot(3, v3, NoVertex, o3)>>
          /\ obs = [per |-> <<NewObs(v1), NewObs(v2), NewObs(v3)>>, assigns |-> 0]
    /\ robot_counter = 4
    /\ selected_robot = NoRobot
    /\ warnings = << >>
    /\ pc = 0

NextCrowd ==
    \/ \E i \in 1..Len(robots) : RobotClicked(i)
    \/ UpdatePosition
    \/ CheckCollisions

SpecCrowd == InitCrowd /\ [][NextCrowd]_vars

(* One robot, spawned once and assigned once; the QTimer of initTimer fires *)
(* every 50 ms, so updateRobots keeps being run.  The graph is a line of    *)
(* four vertices whose last lane is shorter than AT_VERTEX_THRESHOLD.       *)

SoloGraph ==
    [pos   |-> (0 :> 0) @@ (1 :> 10) @@ (2 :> 27) @@ (3 :> 31),
     lanes |-> << <<0, 1>>, <<1, 2>>, <<2, 3>> >>]

InitSolo == InitGraph(SoloGraph)

SpawnOnlyRobot(vertex_index) == robots = << >> /\ SpawnRobot(vertex_index)

AssignOnlyTask(vertex_index) == obs.assigns = 0 /\ AssignTask(vertex_index)

NextSolo ==
    \/ \E v \in Vertices : SpawnOnlyRobot(v)
    \/ \E i \in 1..Len(robots) : RobotClicked(i)
    \/ \E v \in Vertices : AssignOnlyTask(v)
    \/ UpdatePosition
    \/ CheckCollisions

SpecSolo ==
    InitSolo /\ [][NextSolo]_vars /\ WF_vars(UpdatePosition) /\ WF_vars(CheckCollisions)

-----------------------------------------------------------------------------
(* Claims *)

Robots == 1..Len(robots)

\* the step is robot i's motion update
MotionUpdateOf(i) == pc < Len(robots) /\ pc' = pc + 1 /\ i = pc + 1

\* the step is a collision pass
CollisionPass == pc = Len(robots) /\ pc' = 0 /\ Len(robots') = Len(robots)

\* C1: a vertex's reserved_by never goes from one robot id directly to a
\* different robot id; it only goes from empty to an id or from an id to empty.
NoReservationOverwrite ==
    [][\A v \in Vertices :
          (vertex_items[v].reserved_by # NoRobot /\ vertex_items'[v].reserved_by # NoRobot)
              => vertex_items'[v].reserved_by = vertex_items[v].reserved_by]_vars

\* C2: a robot whose first waypoint's vertex is reserved by a different robot
\* at the start of its motion update keeps its position, route and
\* current_vertex_index and becomes waiting / "waiting"; and a motion update
\* that consumes a waypoint or changes current_vertex_index enters a vertex no
\* other robot held, and holds it.
BlockedRobotStays ==
    [][\A i \in Robots : MotionUpdateOf(i) =>
          LET r == robots[i]
              r2 == robots'[i]
              blocked == /\ r.route # << >>
                         /\ vertex_items[Head(r.route)].reserved_by \notin {NoRobot, r.id}
          IN  /\ blocked =>
                    /\ r2.pos = r.pos
                    /\ r2.route = r.route
                    /\ r2.current_vertex_index = r.current_vertex_index
                    /\ r2.waiting
                    /\ r2.status = "waiting"
              /\ (r2.route # r.route
                    \/ r2.current_vertex_index # r.current_vertex_index) =>
                    /\ vertex_items[r2.current_vertex_index].reserved_by
                           \in {NoRobot, r.id}
                    /\ vertex_items'[r2.current_vertex_index].reserved_by = r.id]_vars

\* C2 witness: the robot just updated stands blocked before a vertex another
\* robot holds.
BlockedRobotSeen ==
    /\ pc >= 1
    /\ robots[pc].route # << >>
    /\ vertex_items[Head(robots[pc].route)].reserved_by \notin {NoRobot, robots[pc].id}
    /\ robots[pc].waiting
    /\ robots[pc].status = "waiting"

\* the vertices robot i occupies: its current vertex and any vertex within the
\* clearance radius of its position
Occupies(i, v) ==
    \/ robots[i].current_vertex_index = v
    \/ Hypot(PosOf(v), robots[i].pos) <= AT_VERTEX_THRESHOLD

\* C3: every vertex reserved by robot r is the vertex r occupies or the next
\* vertex on r's route.
HoldsOnlyCurrentOrNext ==
    \A v \in Vertices : \A i \in Robots :
        vertex_items[v].reserved_by = robots[i].id =>
            \/ Occupies(i, v)
            \/ (robots[i].route # << >> /\ Head(robots[i].route) = v)

\* C4: a robot halted by the collision pass keeps its position, and is not
\* "moving" at the end of a tick, until a collision pass sees it farther than
\* collision_threshold + release_margin from a peer.
HeldStaysHalted ==
    [][\A i \in Robots :
          (obs.per[i].held /\ obs'.per[i].held) =>
              /\ robots'[i].pos = robots[i].pos
              /\ (pc' = 0 => robots'[i].status # "moving")]_vars

\* C5: the robot a collision pass halts for a pair has the strictly larger
\* remaining route distance, or the same one and the higher id.
HaltedHasMoreRemaining ==
    [][CollisionPass =>
          \A k \in 1..Len(warnings') :
              LET w == warnings'[k]
                  rh == compute_remaining_distance(robots'[w.robot], vertex_items')
                  rp == compute_remaining_distance(robots'[w.peer], vertex_items')
              IN  rh > rp \/ (rh = rp /\ w.robot > w.peer)]_vars

\* robot 1 spawned at A and sent to B, robot 2 spawned at B and sent to A
HeadOnScenario ==
    /\ Len(robots) = 2
    /\ obs.assigns = 2
    /\ obs.per[1].spawn = 0 /\ obs.per[1].req = 1
    /\ obs.per[2].spawn = 1 /\ obs.per[2].req = 0

\* C6: head-on on the two-vertex graph: at the end of every tick after both
\* assignments one robot is halted and the other one has advanced from its
\* spawn vertex.
HeadOnOneProceeds ==
    [][(HeadOnScenario /\ CollisionPass) =>
          \E h, m \in {1, 2} :
              /\ h # m
              /\ robots'[h].speed = 0 /\ robots'[h].waiting
              /\ robots'[m].speed # 0
              /\ robots'[m].pos # PosOf(obs.per[m].spawn)]_vars

\* the step is assign_task for the selected robot
AssignStep == selected_robot # NoRobot /\ selected_robot' = NoRobot

\* C7: after assign_task(robot, d), whatever the robot's status was and
\* whoever holds d, current_destination_index is d, the status is
\* "task assigned" and the route is the one to d (or empty).
AssignSetsDestination ==
    [][AssignStep =>
          LET r2 == robots'[selected_robot]
              d == obs'.per[selected_robot].req
          IN  /\ r2.current_destination_index = d
              /\ r2.status = "task assigned"
              /\ (r2.route = << >> \/ r2.route[Len(r2.route)] = d)]_vars

\* the vertices joined to the set S by lanes
RECURSIVE Closure(_)
Closure(S) ==
    LET T == S \cup {v \in Vertices :
                        \E k \in 1..Len(lanes) :
                            \/ (lanes[k][1] \in S /\ lanes[k][2] = v)
                            \/ (lanes[k][2] \in S /\ lanes[k][1] = v)}
    IN  IF T = S THEN S ELSE Closure(T)

Reachable(u, v) == v \in Closure({u})

\* C8: after assign_task(robot, d) with d unreachable from the robot's current
\* vertex, the route is empty and the status is "task assigned".
UnreachableLeavesEmptyRoute ==
    [][AssignStep =>
          LET r == robots[selected_robot]
              r2 == robots'[selected_robot]
              d == obs'.per[selected_robot].req
          IN  ~Reachable(r.current_vertex_index, d) =>
                  (r2.route = << >> /\ r2.status = "task assigned")]_vars

\* C9: a robot whose last assign_task found no path is never "task complete".
StalledNeverCompletes ==
    \A i \in Robots : obs.per[i].stalled => robots[i].status # "task complete"

\* C10: at the end of the tick after the one that consumed the last waypoint,
\* the robot is "task complete" on its destination and holds it.
ArrivedIsComplete ==
    [][\A i \in Robots :
          (CollisionPass /\ obs.per[i].consumed = 1) =>
              LET r2 == robots'[i]
                  d == obs.per[i].dest
              IN  /\ r2.status = "task complete"
                  /\ r2.current_vertex_index = d
                  /\ vertex_items'[d].reserved_by = r2.id]_vars

Resting == {"unassigned", "task complete"}

\* C11: a robot whose status is "unassigned" or "task complete" keeps exactly
\* that status in every step that is not assign_task on that robot.
RestingLeftOnlyByAssign ==
    [][\A i \in Robots :
          (robots[i].status \in Resting /\ ~(AssignStep /\ selected_robot = robots[i].id))
              => robots'[i].status = robots[i].status]_vars

\* the elements of a sequence
Range(s) == {s[k] : k \in 1..Len(s)}

\* C12: a route installed by assign_task when a path exists is the shortest
\* path without its first element: the robot's current vertex is not one of
\* its waypoints and its last waypoint is the destination.
InstalledRouteIsPathTail ==
    [][AssignStep =>
          LET r == robots[selected_robot]
              r2 == robots'[selected_robot]
              d == obs'.per[selected_robot].req
              path == get_shortest_path(r.current_vertex_index, d)
          IN  (~DestinationReserved(vertex_items, d) /\ path # << >>) =>
                  /\ r2.route = Tail(path)
                  /\ r.current_vertex_index \notin Range(r2.route)
                  /\ (r2.route # << >> => r2.route[Len(r2.route)] = d)]_vars

\* the step is a replan_route call for robot i
ReplanStep(i) == obs'.replans[i] = obs.replans[i] + 1

\* C13: a replan_route call for a robot with a destination, made after an
\* earlier call for it with the graph, its current vertex and its destination
\* unchanged, leaves the route as the earlier call left it and changes
\* nothing else.
ReplanIdempotent ==
    [][\A i \in Robots :
          (/\ ReplanStep(i)
           /\ obs.replans[i] >= 1
           /\ robots[i].current_destination_index # NoVertex) =>
              /\ robots'[i].route = robots[i].route
              /\ robots' = robots
              /\ UNCHANGED <<vertex_items, lanes, robot_counter,
                             selected_robot, warnings, pc>>]_vars

\* C13 witness: a robot with a destination was replanned twice and carries a
\* route that is not its old one.
ReplannedTwice ==
    \E i \in Robots :
        /\ obs.replans[i] = 2
        /\ robots[i].current_destination_index # NoVertex
        /\ robots[i].route # << >>
        /\ robots[i].route # obs.old[i]

\* a lane joins u and v
Lane(u, v) == \E k \in 1..Len(lanes) : lanes[k] = <<u, v>> \/ lanes[k] = <<v, u>>

\* q starts at s, ends at d, follows lanes and repeats no vertex
SimplePath(q, s, d) ==
    /\ q # << >>
    /\ q[1] = s /\ q[Len(q)] = d
    /\ \A k \in 1..(Len(q) - 1) : Lane(q[k], q[k + 1])
    /\ \A k, l \in 1..Len(q) : k # l => q[k] # q[l]

RECURSIVE PathWeight(_)
PathWeight(q) ==
    IF Len(q) < 2 THEN 0
    ELSE Hypot(PosOf(q[1]), PosOf(q[2])) + PathWeight(Tail(q))

SimplePaths(s, d) ==
    {q \in UNION {[1..n -> Vertices] : n \in 1..Cardinality(Vertices)} :
        SimplePath(q, s, d)}

\* C14: get_shortest_path(start, dest) is [] exactly when dest is unreachable
\* from start; otherwise it is a simple path from start to dest along lanes
\* whose weight is at most that of every simple path from start to dest.
ShortestPathCorrect ==
    obs.start # NoVertex =>
        /\ obs.path = << >> <=> ~Reachable(obs.start, obs.dest)
        /\ obs.path # << >> =>
              /\ SimplePath(obs.path, obs.start, obs.dest)
              /\ \A q \in SimplePaths(obs.start, obs.dest) :
                    PathWeight(obs.path) <= PathWeight(q)

\* C14 witness: a query answered with a path of three vertices although a
\* different, strictly heavier, simple path exists.
ShortestAmongSeveral ==
    /\ obs.start # NoVertex
    /\ Len(obs.path) = 3
    /\ \E q \in SimplePaths(obs.start, obs.dest) :
          PathWeight(q) > PathWeight(obs.path)

QueueHasNoDuplicates ==
    \A v \in Vertices :
        LET q == vertex_items[v].waiting_queue
        IN  \A k, l \in 1..Len(q) : k # l => q[k] # q[l]

\* C17: the robot that holds a vertex is not in that vertex's waiting_queue.
HolderNotQueued ==
    \A v \in Vertices :
        vertex_items[v].reserved_by = NoRobot
            \/ vertex_items[v].reserved_by \notin Range(vertex_items[v].waiting_queue)

\* the messages of a warning list that name robot id as the halted one
MessagesOf(ws, identifier) == {k \in 1..Len(ws) : ws[k].robot = identifier}

\* C18: after a collision pass the warning list has at most one message for
\* each robot, every message names a robot the pass left halted and a peer
\* closer to it than collision_threshold, and every robot whose speed the pass
\* took to 0 has a message.
OneWarningPerHaltedRobot ==
    [][CollisionPass =>
          /\ \A i \in Robots : Cardinality(MessagesOf(warnings', robots[i].id)) <= 1
          /\ \A k \in 1..Len(warnings') :
                LET w == warnings'[k]
                IN  /\ w.robot # w.peer
                    /\ robots'[w.robot].speed = 0 /\ robots'[w.robot].waiting
                    /\ Hypot(robots'[w.robot].pos, robots'[w.peer].pos) < collision_threshold
          /\ \A i \in Robots :
                (ResetRobot(robots[i]).speed # 0 /\ robots'[i].speed = 0) =>
                    MessagesOf(warnings', robots[i].id) # {}]_vars

\* the robots of a roster that are not selected, in roster order
Unselected(rs) == SelectSeq(rs, LAMBDA r : ~r.selected)

\* C19: a collision pass leaves a selected robot as the reset pass left it,
\* names it in no warning, and treats the other robots exactly as a pass over
\* the roster without the selected robots would.
SelectedPairsSkipped ==
    [][CollisionPass =>
          /\ \A i \in Robots :
                robots[i].selected =>
                    /\ robots'[i] = ResetRobot(robots[i])
                    /\ \A k \in 1..Len(warnings') :
                          warnings'[k].robot # robots[i].id /\ warnings'[k].peer # robots[i].id
          /\ LET res == check_collisions(Unselected(robots), vertex_items)
             IN  Unselected(robots') = res.robots /\ warnings' = res.warnings]_vars

\* C19 witness: at the end of a tick a selected robot with no route stands
\* closer than collision_threshold to an earlier-spawned robot with no route
\* (the pair the id fallback would halt it for) and is not halted.
SelectedNotHalted ==
    \E i, j \in Robots :
        /\ pc = 0 /\ j < i
        /\ robots[i].selected /\ ~robots[j].selected
        /\ robots[i].route = << >> /\ robots[j].route = << >>
        /\ robots[j].status = "waiting"
        /\ Hypot(robots[i].pos, robots[j].pos) < collision_threshold
        /\ robots[i].speed = default_speed /\ ~robots[i].waiting

\* At the collision pass every robot has had its motion update of this tick,
\* which, for a robot with a route, either advanced it (waiting = FALSE) or
\* found its next vertex reserved by another robot (waiting = TRUE).
BlockedThisTick(i) ==
    /\ pc = Len(robots)
    /\ robots[i].route # << >>
    /\ robots[i].waiting /\ robots[i].status = "waiting"
    /\ vertex_items[Head(robots[i].route)].reserved_by \notin {NoRobot, robots[i].id}

\* C20: a robot whose motion update of this tick was blocked by a reservation
\* ends the tick with status "waiting" and waiting = TRUE.
BlockedEndsTickWaiting ==
    [][\A i \in Robots :
          (CollisionPass /\ BlockedThisTick(i)) =>
              robots'[i].status = "waiting" /\ robots'[i].waiting]_vars

\* C21: a robot with a heading toward its next waypoint is halted by the
\* pairwise pass because of a peer only if that peer lies within
\* angle_threshold ahead of that heading.
HaltedOnlyByPeerAhead ==
    [][CollisionPass =>
          \A k \in 1..Len(warnings') :
              LET h == robots'[warnings'[k].robot]
                  p == robots'[warnings'[k].peer]
                  dir == MovingDirection(h, vertex_items')
              IN  dir # 0 =>
                      AheadWithinAngle((p.pos - h.pos) * dir, Abs(p.pos - h.pos))]_vars

\* C22: the pairwise pass halts a robot through the id fallback only when
\* neither robot of the pair has a heading toward a next waypoint.
FallbackOnlyWithoutHeadings ==
    [][CollisionPass =>
          \A k \in 1..Len(warnings') :
              warnings'[k].kind = "fallback" =>
                  /\ MovingDirection(robots'[warnings'[k].robot], vertex_items') = 0
                  /\ MovingDirection(robots'[warnings'[k].peer], vertex_items') = 0]_vars

\* C23: a vertex's reserved_by goes from a robot to empty only in that robot's
\* own motion update, and only when the robot's position is then farther than
\* AT_VERTEX_THRESHOLD from the vertex.
ClearedOnlyByHolder ==
    [][\A v \in Vertices :
          (vertex_items[v].reserved_by # NoRobot /\ vertex_items'[v].reserved_by = NoRobot) =>
              \E i \in Robots :
                  /\ MotionUpdateOf(i)
                  /\ robots[i].id = vertex_items[v].reserved_by
                  /\ Hypot(PosOf(v), robots'[i].pos) > AT_VERTEX_THRESHOLD]_vars

\* C23 witness: with two robots on the graph, the vertex one of them was
\* spawned on is free again and that robot is farther than
\* AT_VERTEX_THRESHOLD from it, while the other robot still holds a vertex.
SpawnVertexCleared ==
    \E i, j \in Robots :
        /\ i # j
        /\ vertex_items[obs.per[i].spawn].reserved_by = NoRobot
        /\ Hypot(PosOf(obs.per[i].spawn), robots[i].pos) > AT_VERTEX_THRESHOLD
        /\ \E v \in Vertices : vertex_items[v].reserved_by = robots[j].id

\* C24: every robot a collision pass halted because of a peer (it is named in
\* a message of that pass) is halted at the end of the pass: speed 0, waiting
\* and status "waiting".
HaltedStaysHaltedInPass ==
    [][CollisionPass =>
          \A k \in 1..Len(warnings') :
              LET h == robots'[warnings'[k].robot]
              IN  h.speed = 0 /\ h.waiting /\ h.status = "waiting"]_vars

\* C25: at the end of every collision pass every robot's speed is 0 or
\* default_speed, and every robot whose speed is 0 has waiting = TRUE.
SpeedZeroImpliesWaiting ==
    [][CollisionPass =>
          \A i \in Robots :
              /\ robots'[i].speed \in {0, default_speed}
              /\ (robots'[i].speed = 0 => robots'[i].waiting)]_vars

\* C25 witness: at the end of a tick a robot halted in an earlier tick, and
\* no longer named in a warning, still has speed 0 and waiting = TRUE.
StillHaltedUnwarned ==
    \E i \in Robots :
        /\ pc = 0
        /\ robots[i].speed = 0 /\ robots[i].waiting
        /\ ~HaltedIn(warnings, robots[i].id)

\* the only robot was spawned on s and assigned once to d, d # s, reachable
SoloAssigned ==
    /\ Len(robots) = 1
    /\ obs.assigns = 1
    /\ obs.per[1].req # obs.per[1].spawn
    /\ Reachable(obs.per[1].spawn, obs.per[1].req)

\* the robot rests on d: no route, "task complete", d reserved by it and no
\* other vertex reserved
SoloDone ==
    /\ Len(robots) = 1
    /\ robots[1].route = << >>
    /\ robots[1].status = "task complete"
    /\ robots[1].current_vertex_index = obs.per[1].req
    /\ \A v \in Vertices :
          vertex_items[v].reserved_by =
              IF v = obs.per[1].req THEN robots[1].id ELSE NoRobot

\* C26: with one robot, spawned on s and assigned once to a reachable d # s,
\* repeated ticks lead to, and then stay in, a state where the route is empty,
\* the status is "task complete", current_vertex_index is d, and d is the only
\* reserved vertex, reserved by the robot.
SoloRobotArrives == [](SoloAssigned => <>[]SoloDone)

====
